---- MODULE Spec2Model ----
(***************************************************************************)
(* Model of combine-overlays.py: main, find_overlay_folders and            *)
(* process_all_memories.  File names and paths are sequences of            *)
(* one-character strings so that lower(), the substring test and the path  *)
(* concatenations are computed, not assumed.                               *)
(***************************************************************************)
EXTENDS Integers, Sequences, FiniteSets, TLC

VARIABLES pc, dry_run, quality, has_ffmpeg, exit_status, source,
          overlay_folders, image_count, video_count, idx,
          processed_images, processed_videos, skipped_videos, errors,
          calls, output_filename, reported

vars == <<pc, dry_run, quality, has_ffmpeg, exit_status, source,
          overlay_folders, image_count, video_count, idx,
          processed_images, processed_videos, skipped_videos, errors,
          calls, output_filename, reported>>

(* ---------------- bounds of the model ---------------- *)
MaxFiles == 3

(* ---------------- program constants ---------------- *)
SOURCE_FOLDER ==
    <<"s","n","a","p","c","h","a","t","_","m","e","m","o","r","i","e","s">>
OUTPUT_FOLDER ==
    <<"s","n","a","p","c","h","a","t","_","m","e","m","o","r","i","e","s","_","c","o","m","b","i","n","e","d">>
DEFAULT_JPEG_QUALITY == 95
MinQuality == 1
MaxQuality == 100
None == <<>>

(* ---------------- strings ---------------- *)
UpperChars == <<"A","B","C","D","E","F","G","H","I","J","K","L","M",
                "N","O","P","Q","R","S","T","U","V","W","X","Y","Z">>
LowerChars == <<"a","b","c","d","e","f","g","h","i","j","k","l","m",
                "n","o","p","q","r","s","t","u","v","w","x","y","z">>

OtherChars == {"-", ".", "_", "/", "0", "1", "2", "3", "4"}

Alphabet == {UpperChars[i] : i \in 1..26} \cup {LowerChars[i] : i \in 1..26}
            \cup OtherChars

LowerChar ==
    [c \in Alphabet |->
        IF \E i \in 1..26 : UpperChars[i] = c
        THEN LowerChars[CHOOSE i \in 1..26 : UpperChars[i] = c]
        ELSE c]

Lower(s) == [i \in 1..Len(s) |-> LowerChar[s[i]]]

Contains(sub, s) ==
    \E i \in 1..(Len(s) - Len(sub) + 1) : SubSeq(s, i, i + Len(sub) - 1) = sub

PathJoin(a, b) == a \o <<"/">> \o b

OVERLAY_PATTERN == <<"-","o","v","e","r","l","a","y",".","p","n","g">>
IMAGE_PATTERN == <<"-","m","a","i","n",".","j","p","g">>
VIDEO_PATTERN == <<"-","m","a","i","n",".","m","p","4">>
COMBINED == <<"_","c","o","m","b","i","n","e","d">>
EXT_JPG == <<".","j","p","g">>
EXT_MP4 == <<".","m","p","4">>

(* ---------------- inputs ---------------- *)
FileNames ==
    { <<"a","-","o","v","e","r","l","a","y",".","p","n","g">>,
      <<"B","-","O","V","E","R","L","A","Y",".","P","N","G">>,
      <<"a","-","m","a","i","n",".","j","p","g">>,
      <<"a","-","M","a","i","n",".","M","P","4">> }

EntryNames == << <<"m","1">>, <<"m","2">> >>

Qualities == {0, 1, 100, 101}

Responses == { <<"y">>, <<"Y","E","S">>, <<"n">>, <<>> }

Injective(s) == \A i, j \in 1..Len(s) : i # j => s[i] # s[j]

SeqsUpTo(S, n) == UNION { [1..k -> S] : k \in 0..n }

ListingsOf(names) == { l \in SeqsUpTo(names, MaxFiles) : Injective(l) }

EntryOptions(name, listings) ==
    [name : {name}, isdir : {TRUE}, files : listings]
    \cup [name : {name}, isdir : {FALSE}, files : {<<>>}]

(* The listings of the source folder: any selection of the entry names,    *)
(* each a file or a directory with one of the listings, in a fixed order.  *)
RECURSIVE DirListingsOf(_, _)
DirListingsOf(names, listings) ==
    IF names = <<>> THEN { <<>> }
    ELSE LET rest == DirListingsOf(Tail(names), listings)
         IN rest \cup { <<e>> \o d : e \in EntryOptions(Head(names), listings),
                                      d \in rest }

SourcesOf(fileNames) ==
    { [exists |-> FALSE, entries |-> <<>>] }
    \cup [exists : {TRUE}, entries : DirListingsOf(EntryNames, ListingsOf(fileNames))]

Sources == SourcesOf(FileNames)

(* File names for checking find_overlay_folders alone: FileNames, a name   *)
(* that misses the pattern by its dash and one that has it in the middle.  *)
ScanFileNames ==
    FileNames \cup { <<"o","v","e","r","l","a","y",".","p","n","g">>,
                     <<"c","-","o","v","e","r","l","a","y",".","p","n","g",".","b","a","k">> }

(* ---------------- find_overlay_folders ---------------- *)
IsOverlay_CaseSensitive(f) == Contains(OVERLAY_PATTERN, f)

IsOverlay(f) == Contains(OVERLAY_PATTERN, Lower(f))
IsMainImage(f) == Contains(IMAGE_PATTERN, Lower(f))
IsMainVideo(f) == Contains(VIDEO_PATTERN, Lower(f))

JoinAll(dir, fs) == [i \in 1..Len(fs) |-> PathJoin(dir, fs[i])]

FolderInfo(directory, entry) ==
    LET item_path == PathJoin(directory, entry.name)
        overlay_files == SelectSeq(entry.files, IsOverlay)
        main_images == SelectSeq(entry.files, IsMainImage)
        main_videos == SelectSeq(entry.files, IsMainVideo)
    IN [folder_name |-> entry.name,
        folder_path |-> item_path,
        overlays |-> JoinAll(item_path, overlay_files),
        base_image |-> IF main_images # <<>>
                       THEN PathJoin(item_path, Head(main_images)) ELSE None,
        base_video |-> IF main_videos # <<>>
                       THEN PathJoin(item_path, Head(main_videos)) ELSE None,
        is_image |-> main_images # <<>>,
        is_video |-> main_videos # <<>>]

HasOverlay(entry) == SelectSeq(entry.files, IsOverlay) # <<>>

RECURSIVE ScanEntries(_, _)
ScanEntries(directory, entries) ==
    IF entries = <<>> THEN <<>>
    ELSE LET e == Head(entries)
             rest == ScanEntries(directory, Tail(entries))
         IN IF ~e.isdir THEN rest
            ELSE IF HasOverlay(e) THEN <<FolderInfo(directory, e)>> \o rest
            ELSE rest

find_overlay_folders(directory, fs) ==
    IF ~fs.exists THEN <<>> ELSE ScanEntries(directory, fs.entries)

(* ---------------- process_all_memories, per folder ---------------- *)
(* calls is the log of the operations on the environment: the ffmpeg       *)
(* probe, the directory scan, os.makedirs and the two compositors, each    *)
(* with its arguments and its result.                                      *)
IsImageInfo(f) == f.is_image
IsVideoInfo(f) == f.is_video

Call(fn, base, overlay, output, q, result) ==
    [fn |-> fn, base |-> base, overlay |-> overlay, output |-> output,
     quality |-> q, result |-> result]

ScanCall == Call("find_overlay_folders", None, None, None, 0, TRUE)

MakedirsCall(output_dir) == Call("makedirs", None, None, output_dir, 0, TRUE)

FirstOverlay_Last(folder_info) == folder_info.overlays[Len(folder_info.overlays)]

FirstOverlay(folder_info) == folder_info.overlays[1]

Tally_FailureIgnored(c, kind, success) ==
    IF success
    THEN IF kind = "image"
         THEN [c EXCEPT !.processed_images = @ + 1]
         ELSE [c EXCEPT !.processed_videos = @ + 1]
    ELSE c

Tally(c, kind, success) ==
    IF success
    THEN IF kind = "image"
         THEN [c EXCEPT !.processed_images = @ + 1]
         ELSE [c EXCEPT !.processed_videos = @ + 1]
    ELSE [c EXCEPT !.errors = @ + 1]

ImageBranch_IgnoresDryRun(c, folder_info, output_dir, dry, q, success) ==
    LET filename == c.output_filename \o EXT_JPG
        output_path == PathJoin(output_dir, filename)
        named == [c EXCEPT !.output_filename = filename]
    IN Tally([named EXCEPT !.calls = Append(@,
                  Call("combine_image", folder_info.base_image,
                       FirstOverlay(folder_info), output_path, q, success))],
             "image", success)

ImageBranch(c, folder_info, output_dir, dry, q, success) ==
    LET filename == c.output_filename \o EXT_JPG
        output_path == PathJoin(output_dir, filename)
        named == [c EXCEPT !.output_filename = filename]
    IN IF dry THEN named
       ELSE Tally([named EXCEPT !.calls = Append(@,
                  Call("combine_image", folder_info.base_image,
                       FirstOverlay(folder_info), output_path, q, success))],
             "image", success)

VideoBranch_SkipOnlyInPreview(c, folder_info, output_dir, dry, ff, success) ==
    IF ~ff /\ dry THEN [c EXCEPT !.skipped_videos = @ + 1]
    ELSE LET filename == c.output_filename \o EXT_MP4
             output_path == PathJoin(output_dir, filename)
             named == [c EXCEPT !.output_filename = filename]
         IN IF dry THEN named
            ELSE Tally([named EXCEPT !.calls = Append(@,
                            Call("combine_video", folder_info.base_video,
                                 FirstOverlay(folder_info), output_path, 0, success))],
                       "video", success)

VideoBranch(c, folder_info, output_dir, dry, ff, success) ==
    IF ~ff THEN [c EXCEPT !.skipped_videos = @ + 1]
    ELSE LET filename == c.output_filename \o EXT_MP4
             output_path == PathJoin(output_dir, filename)
             named == [c EXCEPT !.output_filename = filename]
         IN IF dry THEN named
            ELSE Tally([named EXCEPT !.calls = Append(@,
                            Call("combine_video", folder_info.base_video,
                                 FirstOverlay(folder_info), output_path, 0, success))],
                       "video", success)

HandleFolder_VideoFirst(c, folder_info, output_dir, dry, q, ff, success) ==
    LET started == [c EXCEPT !.output_filename = folder_info.folder_name \o COMBINED]
    IN IF folder_info.is_video
       THEN VideoBranch(started, folder_info, output_dir, dry, ff, success)
       ELSE IF folder_info.is_image
            THEN ImageBranch(started, folder_info, output_dir, dry, q, success)
            ELSE started

HandleFolder_NoBaseIsError(c, folder_info, output_dir, dry, q, ff, success) ==
    LET started == [c EXCEPT !.output_filename = folder_info.folder_name \o COMBINED]
    IN IF folder_info.is_image
       THEN ImageBranch(started, folder_info, output_dir, dry, q, success)
       ELSE IF folder_info.is_video
            THEN VideoBranch(started, folder_info, output_dir, dry, ff, success)
            ELSE [started EXCEPT !.errors = @ + 1]

HandleFolder(c, folder_info, output_dir, dry, q, ff, success) ==
    LET started == [c EXCEPT !.output_filename = folder_info.folder_name \o COMBINED]
    IN IF folder_info.is_image
       THEN ImageBranch(started, folder_info, output_dir, dry, q, success)
       ELSE IF folder_info.is_video
            THEN VideoBranch(started, folder_info, output_dir, dry, ff, success)
            ELSE started

Locals ==
    [processed_images |-> processed_images, processed_videos |-> processed_videos,
     skipped_videos |-> skipped_videos, errors |-> errors, calls |-> calls,
     output_filename |-> output_filename]

NoReport == [printed |-> FALSE, images |-> 0, videos |-> 0, skipped |-> 0, errors |-> 0]

(* ---------------- main ---------------- *)
ValidQuality_NoUpperBound(q) == MinQuality <= q

ValidQuality(q) == MinQuality <= q /\ q <= MaxQuality

Accepts(response) == Lower(response) \in { <<"y">>, <<"y","e","s">> }

Init ==
    /\ pc = "main"
    /\ dry_run = TRUE
    /\ quality = DEFAULT_JPEG_QUALITY
    /\ has_ffmpeg = FALSE
    /\ exit_status = 0
    /\ source \in Sources
    /\ overlay_folders = <<>>
    /\ image_count = 0
    /\ video_count = 0
    /\ idx = 0
    /\ processed_images = 0
    /\ processed_videos = 0
    /\ skipped_videos = 0
    /\ errors = 0
    /\ calls = <<>>
    /\ output_filename = <<>>
    /\ reported = NoReport

ParseArgs ==
    /\ pc = "main"
    /\ \E execute \in BOOLEAN, q \in Qualities, skip_prompt \in BOOLEAN :
         /\ dry_run' = ~execute
         /\ quality' = q
         /\ IF ~ValidQuality(q)
            THEN pc' = "exit" /\ exit_status' = 1
            ELSE /\ pc' = IF skip_prompt THEN "check_ffmpeg" ELSE "prompt"
                 /\ exit_status' = exit_status
    /\ UNCHANGED <<has_ffmpeg, source, overlay_folders, image_count, video_count,
                   idx, processed_images, processed_videos, skipped_videos,
                   errors, calls, output_filename, reported>>

Prompt ==
    /\ pc = "prompt"
    /\ \E response \in Responses :
         pc' = IF Accepts(response) THEN "check_ffmpeg" ELSE "returned"
    /\ UNCHANGED <<dry_run, quality, has_ffmpeg, exit_status, source,
                   overlay_folders, image_count, video_count, idx,
                   processed_images, processed_videos, skipped_videos,
                   errors, calls, output_filename, reported>>

CheckFfmpeg ==
    /\ pc = "check_ffmpeg"
    /\ \E available \in BOOLEAN :
         /\ has_ffmpeg' = available
         /\ calls' = Append(calls, Call("check_ffmpeg_available", None, None, None, 0, available))
    /\ pc' = "process_all_memories"
    /\ UNCHANGED <<dry_run, quality, exit_status, source, overlay_folders,
                   image_count, video_count, idx, processed_images,
                   processed_videos, skipped_videos, errors, output_filename,
                   reported>>

Discover ==
    /\ pc = "process_all_memories"
    /\ \E logged \in {Append(calls, ScanCall)} :
         \E found \in {find_overlay_folders(SOURCE_FOLDER, source)} :
            /\ overlay_folders' = found
            /\ IF found = <<>>
               THEN /\ pc' = "returned"
                    /\ calls' = logged
                    /\ UNCHANGED <<image_count, video_count>>
               ELSE /\ image_count' = Len(SelectSeq(found, IsImageInfo))
                    /\ video_count' = Len(SelectSeq(found, IsVideoInfo))
                    /\ calls' = IF dry_run THEN logged
                                ELSE Append(logged, MakedirsCall(OUTPUT_FOLDER))
                    /\ pc' = "loop"
    /\ UNCHANGED <<dry_run, quality, has_ffmpeg, exit_status, source, idx,
                   processed_images, processed_videos, skipped_videos, errors,
                   output_filename, reported>>

ProcessFolder_AbortOnFailure ==
    /\ pc = "loop"
    /\ idx < Len(overlay_folders)
    /\ \E success \in BOOLEAN :
         LET c == HandleFolder(Locals, overlay_folders[idx + 1], OUTPUT_FOLDER,
                               dry_run, quality, has_ffmpeg, success)
         IN /\ processed_images' = c.processed_images
            /\ processed_videos' = c.processed_videos
            /\ skipped_videos' = c.skipped_videos
            /\ errors' = c.errors
            /\ calls' = c.calls
            /\ output_filename' = c.output_filename
            /\ pc' = IF c.errors > errors THEN "returned" ELSE pc
    /\ idx' = idx + 1
    /\ UNCHANGED <<dry_run, quality, has_ffmpeg, exit_status, source,
                   overlay_folders, image_count, video_count, reported>>

ProcessFolder ==
    /\ pc = "loop"
    /\ idx < Len(overlay_folders)
    /\ \E success \in BOOLEAN :
         LET c == HandleFolder(Locals, overlay_folders[idx + 1], OUTPUT_FOLDER,
                               dry_run, quality, has_ffmpeg, success)
         IN /\ processed_images' = c.processed_images
            /\ processed_videos' = c.processed_videos
            /\ skipped_videos' = c.skipped_videos
            /\ errors' = c.errors
            /\ calls' = c.calls
            /\ output_filename' = c.output_filename
    /\ idx' = idx + 1
    /\ UNCHANGED <<pc, dry_run, quality, has_ffmpeg, exit_status, source,
                   overlay_folders, image_count, video_count, reported>>

Summary ==
    /\ pc = "loop"
    /\ idx = Len(overlay_folders)
    /\ reported' = IF dry_run
                   THEN [printed |-> TRUE, images |-> image_count,
                         videos |-> IF has_ffmpeg THEN video_count ELSE 0,
                         skipped |-> skipped_videos, errors |-> 0]
                   ELSE [printed |-> TRUE, images |-> processed_images,
                         videos |-> processed_videos,
                         skipped |-> skipped_videos, errors |-> errors]
    /\ pc' = "returned"
    /\ UNCHANGED <<dry_run, quality, has_ffmpeg, exit_status, source,
                   overlay_folders, image_count, video_count, idx,
                   processed_images, processed_videos, skipped_videos,
                   errors, calls, output_filename>>

(* find_overlay_folders called on its own *)
ScanInit ==
    /\ pc = "find_overlay_folders"
    /\ dry_run = TRUE
    /\ quality = DEFAULT_JPEG_QUALITY
    /\ has_ffmpeg = FALSE
    /\ exit_status = 0
    /\ source \in SourcesOf(ScanFileNames)
    /\ overlay_folders = <<>>
    /\ image_count = 0
    /\ video_count = 0
    /\ idx = 0
    /\ processed_images = 0
    /\ processed_videos = 0
    /\ skipped_videos = 0
    /\ errors = 0
    /\ calls = <<>>
    /\ output_filename = <<>>
    /\ reported = NoReport

Scan ==
    /\ pc = "find_overlay_folders"
    /\ overlay_folders' = find_overlay_folders(SOURCE_FOLDER, source)
    /\ pc' = "scanned"
    /\ UNCHANGED <<dry_run, quality, has_ffmpeg, exit_status, source,
                   image_count, video_count, idx, processed_images,
                   processed_videos, skipped_videos, errors, calls,
                   output_filename, reported>>

ScanSpec == ScanInit /\ [][Scan]_vars

Next ==
    \/ ParseArgs
    \/ Prompt
    \/ CheckFfmpeg
    \/ Discover
    \/ ProcessFolder
    \/ Summary

Spec == Init /\ [][Next]_vars

FairSpec == Spec /\ WF_vars(Next)

(* ---------------- vocabulary of the properties ---------------- *)
HasBaseImage(f) == f.base_image # None
HasBaseVideo(f) == f.base_video # None
ImageKind(f) == HasBaseImage(f)
VideoKind(f) == HasBaseVideo(f) /\ ~HasBaseImage(f)
Unclassified(f) == ~HasBaseImage(f) /\ ~HasBaseVideo(f)
BothBases(f) == HasBaseImage(f) /\ HasBaseVideo(f)

IsCombineImage(c) == c.fn = "combine_image"
IsCombineVideo(c) == c.fn = "combine_video"
IsCompositor(c) == IsCombineImage(c) \/ IsCombineVideo(c)
IsMakedirs(c) == c.fn = "makedirs"

ExpectedName(f, ext) ==
    f.folder_name \o <<"_","c","o","m","b","i","n","e","d">> \o ext

ExpectedOutput(f, ext) == OUTPUT_FOLDER \o <<"/">> \o ExpectedName(f, ext)

InLoop == pc = "loop" /\ idx < Len(overlay_folders)
Current == overlay_folders[idx + 1]
TalliesUnchanged ==
    /\ processed_images' = processed_images
    /\ processed_videos' = processed_videos
    /\ skipped_videos' = skipped_videos
    /\ errors' = errors
Discovered == \E i \in 1..Len(calls) : calls[i].fn = "find_overlay_folders"

(* The pass of process_all_memories in Execute mode over the same folders, *)
(* with every compositor call returning the same result.                   *)
RECURSIVE ExecutePass(_, _, _, _)
ExecutePass(folders, q, ff, success) ==
    IF folders = <<>>
    THEN [processed_images |-> 0, processed_videos |-> 0, skipped_videos |-> 0,
          errors |-> 0, calls |-> <<>>, output_filename |-> <<>>]
    ELSE HandleFolder(ExecutePass(SubSeq(folders, 1, Len(folders) - 1), q, ff, success),
                      folders[Len(folders)], OUTPUT_FOLDER, FALSE, q, ff, success)

(* C1: the counts a Preview run reports as "would create" equal the number *)
(* of combine_image and combine_video calls an Execute run attempts on the *)
(* same folders with the same has_ffmpeg.                                  *)
C1_PreviewCountsMatchExecuteAttempts ==
    (dry_run /\ reported.printed) =>
        \A success \in BOOLEAN :
            LET pass == ExecutePass(overlay_folders, quality, has_ffmpeg, success)
            IN /\ reported.images = Len(SelectSeq(pass.calls, IsCombineImage))
               /\ reported.videos = Len(SelectSeq(pass.calls, IsCombineVideo))

(* C2: a Preview run never calls os.makedirs, combine_image or             *)
(* combine_video, and processed_images, processed_videos and errors stay 0. *)
C2_PreviewWritesNothing ==
    dry_run =>
        /\ \A i \in 1..Len(calls) : ~IsCompositor(calls[i]) /\ ~IsMakedirs(calls[i])
        /\ processed_images = 0
        /\ processed_videos = 0
        /\ errors = 0

C2_Witness ==
    /\ dry_run
    /\ reported.printed
    /\ has_ffmpeg
    /\ \E i, j \in 1..Len(overlay_folders) :
          ImageKind(overlay_folders[i]) /\ VideoKind(overlay_folders[j])

(* C3: with has_ffmpeg False, handling a Video-kind folder adds exactly 1  *)
(* to skipped_videos, makes no call and changes no other counter, in both  *)
(* modes; at the end skipped_videos is the number of Video-kind folders.   *)
C3_SkippedVideoAccounting ==
    /\ [][(InLoop /\ ~has_ffmpeg /\ VideoKind(Current)) =>
             /\ skipped_videos' = skipped_videos + 1
             /\ calls' = calls
             /\ processed_images' = processed_images
             /\ processed_videos' = processed_videos
             /\ errors' = errors]_vars
    /\ []((reported.printed /\ ~has_ffmpeg) =>
             skipped_videos = Len(SelectSeq(overlay_folders, VideoKind)))

C3_Witness ==
    /\ reported.printed
    /\ ~has_ffmpeg
    /\ ~dry_run
    /\ skipped_videos = 1
    /\ \E i \in 1..Len(overlay_folders) : VideoKind(overlay_folders[i])
    /\ \E i \in 1..Len(overlay_folders) : BothBases(overlay_folders[i])

(* C4: handling an Unclassified folder (overlay, no base image, no base    *)
(* video) makes no call and changes no counter, in either mode.            *)
C4_UnclassifiedSkipped ==
    [][(InLoop /\ Unclassified(Current)) =>
          /\ calls' = calls
          /\ TalliesUnchanged
          /\ idx' = idx + 1]_vars

C4_Witness ==
    /\ ~dry_run
    /\ reported.printed
    /\ \E i \in 1..Len(overlay_folders) : Unclassified(overlay_folders[i])
    /\ \E i \in 1..Len(overlay_folders) : ~Unclassified(overlay_folders[i])

(* C5: a quality outside 1..100 ends main in the error exit with status 1, *)
(* entered straight from the argument check and followed by nothing: the   *)
(* prompt, the ffmpeg probe, find_overlay_folders, os.makedirs and the     *)
(* compositors are never reached; a quality inside 1..100 never takes it.  *)
C5_QualityRejectedFirst ==
    /\ []((quality < 1 \/ quality > 100) =>
             /\ pc = "exit"
             /\ exit_status = 1
             /\ calls = <<>>
             /\ overlay_folders = <<>>)
    /\ []((quality >= 1 /\ quality <= 100) => (pc # "exit" /\ exit_status = 0))
    /\ [][(pc' = "exit" => pc = "main") /\ (pc = "exit" => pc' = "exit")]_vars

C5_Witness == pc = "exit" /\ quality > 100

(* C6: a folder with both a base image and a base video is handled by the  *)
(* image branch only: in Execute mode its one call is combine_image with   *)
(* output {folder_name}_combined.jpg, in Preview mode no call; never       *)
(* combine_video, never a skipped video, whatever has_ffmpeg is.           *)
C6_BothBasesIsImage ==
    [][(InLoop /\ BothBases(Current)) =>
          /\ skipped_videos' = skipped_videos
          /\ processed_videos' = processed_videos
          /\ output_filename' = ExpectedName(Current, EXT_JPG)
          /\ IF dry_run THEN calls' = calls
             ELSE /\ Len(calls') = Len(calls) + 1
                  /\ SubSeq(calls', 1, Len(calls)) = calls
                  /\ IsCombineImage(calls'[Len(calls')])
                  /\ calls'[Len(calls')].output = ExpectedOutput(Current, EXT_JPG)]_vars

C6_Witness ==
    /\ ~dry_run
    /\ has_ffmpeg
    /\ idx >= 1
    /\ BothBases(overlay_folders[idx])

(* C7: find_overlay_folders returns exactly the immediate subdirectories   *)
(* that contain a file whose lower-cased name contains '-overlay.png', in  *)
(* listing order; every item has a non-empty overlays list; a missing root *)
(* gives the empty list.                                                   *)
ListsOverlay(e) ==
    \E k \in 1..Len(e.files) : Contains(OVERLAY_PATTERN, Lower(e.files[k]))
QualifyingEntry(e) == e.isdir /\ ListsOverlay(e)

C7_DiscoveryIffOverlay ==
    (pc = "scanned" \/ Discovered) =>
        /\ [i \in 1..Len(overlay_folders) |-> overlay_folders[i].folder_name]
             = LET q == SelectSeq(source.entries, QualifyingEntry)
               IN [i \in 1..Len(q) |-> q[i].name]
        /\ \A i \in 1..Len(overlay_folders) : overlay_folders[i].overlays # <<>>
        /\ ~source.exists => overlay_folders = <<>>

C7_Witness ==
    /\ pc = "scanned"
    /\ Len(overlay_folders) = 1
    /\ \E i, j \in 1..Len(source.entries) :
          /\ source.entries[i].isdir
          /\ source.entries[i].files
               = << <<"a","-","m","a","i","n",".","j","p","g">>,
                    <<"B","-","O","V","E","R","L","A","Y",".","P","N","G">> >>
          /\ source.entries[j].isdir
          /\ source.entries[j].files
               = << <<"o","v","e","r","l","a","y",".","p","n","g">>,
                    <<"a","-","m","a","i","n",".","j","p","g">>,
                    <<"a","-","M","a","i","n",".","M","P","4">> >>

(* C8: in Execute mode a failed compositor call adds exactly 1 to errors   *)
(* and the pass goes on to the next folder; every folder is visited once,  *)
(* in order, and the pass always reaches the final summary.                *)
C8_FailureNeverAborts ==
    /\ [][(InLoop /\ ~dry_run) =>
             /\ idx' = idx + 1
             /\ pc' = "loop"
             /\ overlay_folders' = overlay_folders
             /\ (Len(calls') > Len(calls) /\ ~calls'[Len(calls')].result) =>
                   errors' = errors + 1]_vars
    /\ (pc = "loop" /\ ~dry_run) ~> (reported.printed /\ idx = Len(overlay_folders))

C8_Witness ==
    /\ ~dry_run
    /\ reported.printed
    /\ Len(calls) >= 2
    /\ IsCompositor(calls[Len(calls)])
    /\ IsCompositor(calls[Len(calls) - 1])
    /\ ~calls[Len(calls) - 1].result
    /\ errors >= 1

(* C9: in Execute mode, after idx folders the four counters sum to the     *)
(* number of those folders that have a base, no counter ever decreases,    *)
(* and at the end the sum is the number of folders that have a base.       *)
NotUnclassified(f) == ~Unclassified(f)

C9_EachFolderCountedOnce ==
    /\ [](~dry_run =>
            processed_images + processed_videos + skipped_videos + errors
              = Len(SelectSeq(SubSeq(overlay_folders, 1, idx), NotUnclassified)))
    /\ [][/\ processed_images' >= processed_images
          /\ processed_videos' >= processed_videos
          /\ skipped_videos' >= skipped_videos
          /\ errors' >= errors]_vars

C9_Witness ==
    /\ ~dry_run
    /\ reported.printed
    /\ Len(overlay_folders) = 2
    /\ errors = 1
    /\ processed_images + processed_videos + skipped_videos = 1

(* C10: in Execute mode handling a folder makes at most one compositor     *)
(* call, with the folder's first overlay and the output path               *)
(* {output_dir}/{folder_name}_combined.jpg or .mp4 by kind; no two         *)
(* compositor calls get the same output path.                              *)
C10_OneCallFirstOverlay ==
    /\ [][(InLoop /\ ~dry_run) =>
             \/ calls' = calls
             \/ /\ Len(calls') = Len(calls) + 1
                /\ SubSeq(calls', 1, Len(calls)) = calls
                /\ LET c == calls'[Len(calls')]
                   IN /\ IsCompositor(c)
                      /\ c.overlay = Current.overlays[1]
                      /\ IsCombineImage(c) =>
                            (ImageKind(Current) /\ c.output = ExpectedOutput(Current, EXT_JPG))
                      /\ IsCombineVideo(c) =>
                            (VideoKind(Current) /\ c.output = ExpectedOutput(Current, EXT_MP4))]_vars
    /\ [](\A i, j \in 1..Len(calls) :
            (i # j /\ IsCompositor(calls[i]) /\ IsCompositor(calls[j])) =>
                calls[i].output # calls[j].output)

C10_Witness ==
    /\ ~dry_run
    /\ Len(SelectSeq(calls, IsCompositor)) = 2
    /\ \E i \in 1..idx :
          /\ Len(overlay_folders[i].overlays) >= 2
          /\ ~Unclassified(overlay_folders[i])
====
